---------------------------- MODULE Spec2Model ----------------------------
(***************************************************************************)
(* Model of the bcm2-utils settings container codec (src/gwsettings.cc):   *)
(* the dispatcher settings::read(is, type, p, key), the permdyn and        *)
(* gwsettings codecs (read and write) and the group-stream reader          *)
(* settings::read(is).                                                     *)
(*                                                                         *)
(* Files are sequences of bytes (naturals 0..255) of their real lengths:   *)
(* the 74-byte magic, 16-byte checksums and cipher blocks, 186 + 16 bytes  *)
(* of 0xff in front of a permnv/dynnv image.                               *)
(*                                                                         *)
(* Library kernels.  CRC-32 is computed bit by bit as boost::crc_32_type   *)
(* does.  OpenSSL's MD5 and AES-256 are replaced by small stand-ins with   *)
(* the same interface and shape: Md5 is a deterministic 16-byte digest of  *)
(* the whole message (sensitive to every byte and to the length); the      *)
(* cipher is a keyed permutation of 16-byte blocks with AES_decrypt the    *)
(* inverse of AES_encrypt under the same key schedule.  The codec's own    *)
(* logic around them (what is hashed, block carry, padding, trial order)   *)
(* is modelled as the code has it.                                         *)
(***************************************************************************)
EXTENDS Integers, Sequences, FiniteSets, TLC

\* ------------------------------------------------------------------------
\* Byte strings
\* ------------------------------------------------------------------------

\* std::string(n, c)
Fill(n, c) == [i \in 1..n |-> c]

\* std::string::substr(pos, count), pos 0-based, clamped at the end of s
Substr(s, pos, count) ==
    LET n == IF pos + count > Len(s) THEN Len(s) - pos ELSE count
    IN  [i \in 1..n |-> s[pos + i]]

\* std::string::substr(pos): everything from pos on
SubstrFrom(s, pos) == Substr(s, pos, Len(s) - pos)

\* big-endian encodings written by nv_u16 / nv_u32 / nv_version
U16Bytes(n) == <<(n \div 256) % 256, n % 256>>

U32Bytes(n) == <<(n \div 16777216) % 256, (n \div 65536) % 256,
                 (n \div 256) % 256, n % 256>>

\* big-endian decodings read by nv_u16 / nv_u32
U16Num(b) == b[1] * 256 + b[2]

U32Num(b) == b[1] * 16777216 + b[2] * 65536 + b[3] * 256 + b[4]

\* hex text of the profile definitions -> bytes (two digits per byte)
FromHex(h) == [i \in 1..(Len(h) \div 2) |-> 16 * h[2 * i - 1] + h[2 * i]]

\* ------------------------------------------------------------------------
\* Program constants
\* ------------------------------------------------------------------------

\* gwsettings::s_magic, 74 ASCII characters
s_magic ==
    << 54, 117, 57, 69, 57, 101, 87, 70, 48, 98, 116, 57, 89, 56, 82, 119,
       54, 57, 48, 76, 101, 52, 54, 54, 57, 74, 89, 101, 52, 100, 45, 48,
       53, 54, 84, 57, 112, 52, 105, 106, 109, 52, 69, 65, 54, 117, 57, 101,
       101, 54, 53, 57, 106, 110, 57, 69, 45, 53, 52, 101, 52, 106, 54, 114,
       80, 106, 48, 54, 57, 75, 45, 54, 55, 48 >>

\* length of the checksum / of the leading 0xff run read by the dispatcher
StartLen == 16

\* length of the 0xff magic read by permdyn::read
PermDynMagicLen == 186

\* length of the 0xff run written by permdyn::write
PermDynFillLen == 202

\* AES block size / length of the zero padding
BlockLen == 16

\* nv_group::type_* as passed to settings::read
type_cfg  == "cfg"
type_perm == "perm"
type_dyn  == "dyn"

\* bcm2_profiles[]: name, cfg_md5key and cfg_defkeys in declaration order
bcm2_profiles == <<
    [name |-> "generic", cfg_md5key |-> << >>, cfg_defkeys |-> << >>],
    [name |-> "cg3000",
     cfg_md5key |-> <<3,2,5,0,7,3,6,12,6,3,3,11,7,5,2,8,6,5,6,7,6,13,6,4,3,0,2,13,2,7,7,8>>,
     cfg_defkeys |-> << >>],
    [name |-> "twg850",
     cfg_md5key |-> <<5,4,4,13,4,13,5,15,5,4,5,7,4,7,3,8,3,5,3,0,2,13,3,4,0,0,0,0,0,0,0,0>>,
     cfg_defkeys |-> << >>],
    [name |-> "tcw770",
     cfg_md5key |-> <<5,4,4,13,4,13,5,15,5,4,4,3,5,7,3,7,3,7,3,0,0,0,0,0,0,0,0,0,0,0,0,0>>,
     cfg_defkeys |-> << >>],
    [name |-> "twg870",
     cfg_md5key |-> <<5,4,4,13,4,13,5,15,5,4,5,7,4,7,3,8,3,7,3,0,0,0,0,0,0,0,0,0,0,0,0,0>>,
     cfg_defkeys |-> << <<0,0,0,1,0,2,0,3,0,4,0,5,0,6,0,7,0,8,0,9,1,0,1,1,1,2,1,3,1,4,1,5,
                          1,6,1,7,1,8,1,9,2,0,2,1,2,2,2,3,2,4,2,5,2,6,2,7,2,8,2,9,3,0,3,1>> >>],
    [name |-> "tc7200",
     cfg_md5key |-> <<5,4,4,13,4,13,5,15,5,4,4,3,3,7,3,2,3,0,3,0,0,0,0,0,0,0,0,0,0,0,0,0>>,
     cfg_defkeys |-> << <<0,0,0,1,0,2,0,3,0,4,0,5,0,6,0,7,0,8,0,9,0,10,0,11,0,12,0,13,0,14,0,15,
                          1,0,1,1,1,2,1,3,1,4,1,5,1,6,1,7,1,8,1,9,1,10,1,11,1,12,1,13,1,14,1,15>> >>]
  >>

\* a profile is referred to by its position in bcm2_profiles; NoProfile is
\* the null csp<profile>
NoProfile == 0

\* profile::list()
profile_list == 1..Len(bcm2_profiles)

\* profile::md5_key()
md5_key(p) == FromHex(bcm2_profiles[p].cfg_md5key)

\* profile::default_keys()
default_keys(p) ==
    [i \in 1..Len(bcm2_profiles[p].cfg_defkeys) |-> FromHex(bcm2_profiles[p].cfg_defkeys[i])]

\* keyfun_tc7200: key[i] = i, then the password copied over the front
keyfun_tc7200(password) ==
    LET len == IF Len(password) > 32 THEN 32 ELSE Len(password)
    IN  [i \in 1..32 |-> IF i <= len THEN password[i] ELSE (i - 1) % 256]


\* ------------------------------------------------------------------------
\* Checksum and cipher kernels
\* ------------------------------------------------------------------------

\* a ^ b on n-bit values
RECURSIVE XorN(_, _, _)
XorN(a, b, n) ==
    IF n = 0 THEN 0
    ELSE ((a + b) % 2) + 2 * XorN(a \div 2, b \div 2, n - 1)

\* a 32-bit register is held as <<high half, low half>>, 16 bits each
Xor32(x, y) == <<XorN(x[1], y[1], 16), XorN(x[2], y[2], 16)>>

\* 0xffffffff
Ones32 == <<65535, 65535>>

\* 0xedb88320, the reflected form of the polynomial 0x04c11db7
CrcPoly == <<60856, 33568>>

\* one bit of the reflected CRC: shift right, xor the polynomial if a 1 fell out
CrcShift(reg) ==
    LET shifted == <<reg[1] \div 2, (reg[2] \div 2) + (reg[1] % 2) * 32768>>
    IN  IF reg[2] % 2 = 1 THEN Xor32(shifted, CrcPoly) ELSE shifted

\* boost::crc_32_type::process_byte
CrcByte(reg, b) ==
    LET x == Xor32(reg, <<0, b>>)
    IN  CrcShift(CrcShift(CrcShift(CrcShift(CrcShift(CrcShift(CrcShift(CrcShift(x))))))))

\* process_byte over buf[lo..hi], in order (the range is halved to keep
\* the evaluation shallow)
RECURSIVE CrcRun(_, _, _, _)
CrcRun(reg, buf, lo, hi) ==
    IF lo > hi THEN reg
    ELSE IF lo = hi THEN CrcByte(reg, buf[lo])
    ELSE LET mid == (lo + hi) \div 2
             left == CrcRun(reg, buf, lo, mid)
         IN  \* the test makes the left half be computed before the right one
             IF left[1] >= 0 THEN CrcRun(left, buf, mid + 1, hi) ELSE left

\* the register as the four bytes nv_u32 holds (most significant byte first)
RegBytes(reg) == <<reg[1] \div 256, reg[1] % 256, reg[2] \div 256, reg[2] % 256>>

\* permdyn::crc32: boost's crc_32_type (initial 0xffffffff, final xor
\* 0xffffffff) over buf, xor-ed once more with 0xffffffff; as four bytes
crc32(buf) ==
    LET checksum == Xor32(CrcRun(Ones32, buf, 1, Len(buf)), Ones32)
    IN  RegBytes(Xor32(checksum, Ones32))

\* MD5_Init / MD5_Update / MD5_Final: a 16-byte digest of the message
Md5Step(h, byte) ==
    <<(h[1] * 131 + byte + 1) % 65521, (h[2] * 31 + h[1] + byte + 7) % 65519>>

\* MD5_Update over data[lo..hi], in order
RECURSIVE Md5Mix(_, _, _, _)
Md5Mix(h, data, lo, hi) ==
    IF lo > hi THEN h
    ELSE IF lo = hi THEN Md5Step(h, data[lo])
    ELSE LET mid == (lo + hi) \div 2
             left == Md5Mix(h, data, lo, mid)
         IN  \* the test makes the left half be computed before the right one
             IF left[1] >= 0 THEN Md5Mix(left, data, mid + 1, hi) ELSE left

Md5(data) ==
    LET h == Md5Mix(<<1, 0>>, data, 1, Len(data))
    IN  << h[1] % 256, h[1] \div 256, h[2] % 256, h[2] \div 256,
           Len(data) % 256, (Len(data) \div 256) % 256,
           (h[1] + h[2]) % 256, (h[1] + 3 * h[2]) % 251,
           0, 0, 0, 0, 0, 0, 0, 0 >>

\* AES_set_encrypt_key / AES_set_decrypt_key: the schedule derived from
\* the 32 key bytes
RECURSIVE KeySum(_, _)
KeySum(key, i) == IF i > Len(key) THEN 0 ELSE (key[i] * i + KeySum(key, i + 1)) % 256

AES_set_key(key) == KeySum(key, 1)

\* AES_encrypt on the 16-byte block of ibuf that starts at offset off
AES_encrypt(ibuf, off, ks) ==
    [i \in 1..BlockLen |-> (ibuf[off + BlockLen + 1 - i] + ks + 7 * i) % 256]

\* AES_decrypt, the inverse permutation of AES_encrypt
AES_decrypt(ibuf, off, ks) ==
    [i \in 1..BlockLen |->
        (ibuf[off + BlockLen + 1 - i] + 512 - ks - 7 * (BlockLen + 1 - i)) % 256]

\* ------------------------------------------------------------------------
\* gwsettings helpers
\* ------------------------------------------------------------------------

\* crypt without the copy of the bytes after the last whole block: they
\* stay as the output buffer was filled, zero
CryptNoTail(ibuf0, key, decrypt, pad) ==
    LET ks     == AES_set_key(key)
        ibuf   == IF ~decrypt /\ pad THEN ibuf0 \o Fill(BlockLen, 0) ELSE ibuf0
        whole  == (Len(ibuf) \div BlockLen) * BlockLen
    IN  [i \in 1..Len(ibuf) |->
            IF i <= whole
            THEN LET off == ((i - 1) \div BlockLen) * BlockLen
                 IN  IF decrypt THEN AES_decrypt(ibuf, off, ks)[i - off]
                     ELSE AES_encrypt(ibuf, off, ks)[i - off]
            ELSE 0]

\* gwsettings::crypt(ibuf, key, decrypt, pad): whole 16-byte blocks go
\* through the cipher, the remaining bytes are copied; when encrypting with
\* pad, 16 zero bytes are appended first
crypt(ibuf0, key, decrypt, pad) ==
    LET ks     == AES_set_key(key)
        ibuf   == IF ~decrypt /\ pad THEN ibuf0 \o Fill(BlockLen, 0) ELSE ibuf0
        whole  == (Len(ibuf) \div BlockLen) * BlockLen
    IN  [i \in 1..Len(ibuf) |->
            IF i <= whole
            THEN LET off == ((i - 1) \div BlockLen) * BlockLen
                 IN  IF decrypt THEN AES_decrypt(ibuf, off, ks)[i - off]
                     ELSE AES_encrypt(ibuf, off, ks)[i - off]
            ELSE ibuf[i]]

\* gwsettings::calc_checksum(buf, p): MD5 over buf, then over the profile's
\* md5 key if there is a profile and its key is not empty
calc_checksum(buf, p) ==
    LET key == IF p # NoProfile THEN md5_key(p) ELSE << >>
    IN  IF key # << >> THEN Md5(buf \o key) ELSE Md5(buf)

\* gwsettings::validate_checksum(buf, p): the value assigned to
\* m_checksum_valid and returned
validate_checksum(checksum, buf, p) == checksum = calc_checksum(buf, p)

\* the loop without its break: it goes on to the profiles after the match
RECURSIVE DetectProfileNoBreak(_, _, _, _)
DetectProfileNoBreak(i, checksum, buf, st) ==
    IF i > Len(bcm2_profiles) THEN st
    ELSE IF validate_checksum(checksum, buf, i)
         THEN DetectProfileNoBreak(i + 1, checksum, buf,
                  [checksum_valid |-> TRUE, is_auto_profile |-> TRUE, profile |-> i])
         ELSE DetectProfileNoBreak(i + 1, checksum, buf,
                  [st EXCEPT !.checksum_valid = FALSE])

\* the loop of validate_checksum_and_detect_profile over profile::list()
\* from position i on; st holds m_checksum_valid, m_is_auto_profile and
\* m_profile.  Every profile tested assigns m_checksum_valid; the first
\* match sets the other two and breaks.
RECURSIVE DetectProfileFrom(_, _, _, _)
DetectProfileFrom(i, checksum, buf, st) ==
    IF i > Len(bcm2_profiles) THEN st
    ELSE IF validate_checksum(checksum, buf, i)
         THEN [checksum_valid |-> TRUE, is_auto_profile |-> TRUE, profile |-> i]
         ELSE DetectProfileFrom(i + 1, checksum, buf,
                                [st EXCEPT !.checksum_valid = FALSE])

\* gwsettings::validate_checksum_and_detect_profile(buf), on a container
\* whose m_profile is p and whose flags still have their initial values
validate_checksum_and_detect_profile(checksum, buf, p) ==
    IF p # NoProfile
    THEN [checksum_valid |-> validate_checksum(checksum, buf, p),
          is_auto_profile |-> FALSE, profile |-> p]
    ELSE DetectProfileFrom(1, checksum, buf,
             [checksum_valid |-> FALSE, is_auto_profile |-> FALSE, profile |-> NoProfile])

\* decrypt without the assignment to m_magic_valid
DecryptKeepsFlag(buf, key) ==
    LET decrypted == crypt(buf, key, TRUE, FALSE)
    IN  IF Substr(decrypted, 0, 74) = s_magic
        THEN [ok |-> TRUE, buf |-> decrypted, magic_valid |-> FALSE]
        ELSE [ok |-> FALSE, buf |-> buf, magic_valid |-> FALSE]

\* gwsettings::decrypt(buf, key): ok iff the first 74 decrypted bytes are
\* the magic; then buf is replaced and m_magic_valid set
decrypt(buf, key) ==
    LET decrypted == crypt(buf, key, TRUE, FALSE)
    IN  IF Substr(decrypted, 0, 74) = s_magic
        THEN [ok |-> TRUE, buf |-> decrypted, magic_valid |-> TRUE]
        ELSE [ok |-> FALSE, buf |-> buf, magic_valid |-> FALSE]

\* gwsettings::decrypt_with_profile(buf, p): the profile's default keys in
\* order from position i on; the first that decrypts is stored in m_key
RECURSIVE DecryptWithKeysFrom(_, _, _)
DecryptWithKeysFrom(i, buf, keys) ==
    IF i > Len(keys) THEN [ok |-> FALSE, buf |-> buf, magic_valid |-> FALSE, key |-> << >>]
    ELSE LET d == decrypt(buf, keys[i])
         IN  IF d.ok THEN [ok |-> TRUE, buf |-> d.buf, magic_valid |-> d.magic_valid,
                               key |-> keys[i]]
             ELSE DecryptWithKeysFrom(i + 1, buf, keys)

decrypt_with_profile(buf, p) == DecryptWithKeysFrom(1, buf, default_keys(p))

\* the loop of decrypt_and_detect_profile over profile::list() from
\* position i on: returns at the first profile one of whose keys decrypts
RECURSIVE DecryptProfilesFrom(_, _)
DecryptProfilesFrom(i, buf) ==
    IF i > Len(bcm2_profiles)
    THEN [ok |-> FALSE, buf |-> buf, magic_valid |-> FALSE, key |-> << >>]
    ELSE LET d == decrypt_with_profile(buf, i)
         IN  IF d.ok THEN d ELSE DecryptProfilesFrom(i + 1, buf)

\* gwsettings::decrypt_and_detect_profile(buf) on a container whose m_key is
\* key and whose m_profile is p: the result, the new buf, m_magic_valid and
\* m_key.  No branch assigns m_profile.
decrypt_and_detect_profile(buf, key, p) ==
    IF key # << >>
    THEN LET d == decrypt(buf, key)
         IN  [ok |-> d.ok, buf |-> d.buf, magic_valid |-> d.magic_valid, key |-> key]
    ELSE IF p # NoProfile
         THEN LET d == decrypt_with_profile(buf, p)
              IN  [d EXCEPT !.key = IF d.ok THEN d.key ELSE key]
         ELSE DecryptProfilesFrom(1, buf)

\* ------------------------------------------------------------------------
\* Groups and the group stream
\* ------------------------------------------------------------------------

\* an input stream: the bytes, the read position and the eofbit / failbit
Stream(data) == [data |-> data, pos |-> 0, eof |-> FALSE, fail |-> FALSE]

\* the null sp<nv_group>
NullGroup == [size |-> 0, magic |-> << >>, version |-> << >>, payload |-> << >>]

\* the group magic that ends a stream
TerminatorMagic == <<255, 255, 255, 255>>

\* a group magic with a registered schema ("MLog"): its payload is one
\* enumeration byte, 0 or 1
KnownMagic == <<77, 76, 111, 103>>

\* the registered schema reads the payload of a group
SchemaAccepts(magic, payload) ==
    magic = KnownMagic => (Len(payload) = 1 /\ payload[1] \in {0, 1})

\* length of a group's header: u16 size, 4 bytes magic, u16 version
GroupHeaderLen == 8

\* nv_group::read(is, group, type, maxsize): the stream and the group
\* afterwards.  A header or payload cut short by the end of the input sets
\* eofbit and failbit; a payload its schema rejects sets failbit alone.
NvGroupRead(is, group, type, maxsize) ==
    LET avail == Len(is.data) - is.pos
    IN  IF avail < GroupHeaderLen
        THEN [is |-> [is EXCEPT !.pos = Len(is.data), !.eof = TRUE, !.fail = TRUE],
              group |-> group]
        ELSE LET size    == U16Num(Substr(is.data, is.pos, 2))
                 magic   == Substr(is.data, is.pos + 2, 4)
                 version == Substr(is.data, is.pos + 6, 2)
                 want    == IF size > GroupHeaderLen THEN size - GroupHeaderLen ELSE 0
                 payload == Substr(is.data, is.pos + GroupHeaderLen, want)
                 g       == [size |-> size, magic |-> magic, version |-> version,
                             payload |-> payload]
             IN  IF Len(payload) < want
                 THEN [is |-> [is EXCEPT !.pos = Len(is.data), !.eof = TRUE, !.fail = TRUE],
                       group |-> g]
                 ELSE IF ~SchemaAccepts(magic, payload)
                 THEN [is |-> [is EXCEPT !.pos = is.pos + GroupHeaderLen + want, !.fail = TRUE],
                       group |-> g]
                 ELSE [is |-> [is EXCEPT !.pos = is.pos + GroupHeaderLen + want],
                       group |-> g]

\* nv_group::bytes(): the declared size
GroupBytes(g) == g.size

\* nv_group::name(): derived from the magic; a name is a sequence whose
\* head is the magic and whose tail holds the "_<n>" suffixes appended
GroupName(g) == <<g.magic>>

\* nv_group::write: the header fields and the payload held
GroupWrite(g) == U16Bytes(g.size) \o g.magic \o g.version \o g.payload

\* settings::find(name): is there an entry of that name
find(groups, name) == \E i \in 1..Len(groups) : groups[i].name = name

\* settings::write(os): the groups in list order
RECURSIVE SettingsWrite(_, _)
SettingsWrite(groups, i) ==
    IF i > Len(groups) THEN << >>
    ELSE GroupWrite(groups[i].group) \o SettingsWrite(groups, i + 1)

\* ------------------------------------------------------------------------
\* Input files
\* ------------------------------------------------------------------------

\* most groups in the group stream of an input file
MaxGroups == 2

\* the groups input files are made of:
\*   A  a group of unknown magic and no payload (8 bytes)
\*   B  a group of the registered magic with a valid payload (9 bytes)
\*   X  a group of the registered magic whose payload the schema rejects
\*   S  a group that declares 0x40 bytes but is cut after 0x20 payload bytes
\*   T  the terminator: 8 bytes with the magic ffffffff
GroupKinds == {"A", "B", "X", "S", "T"}

GroupImage(k) ==
    CASE k = "A" -> U16Bytes(8) \o <<67, 77, 65, 112>> \o <<0, 1>>
      [] k = "B" -> U16Bytes(9) \o KnownMagic \o <<0, 2>> \o <<1>>
      [] k = "X" -> U16Bytes(9) \o KnownMagic \o <<0, 2>> \o <<7>>
      [] k = "S" -> U16Bytes(64) \o <<56, 48, 50, 49>> \o <<0, 1>> \o Fill(32, 90)
      [] k = "T" -> U16Bytes(8) \o TerminatorMagic \o <<0, 0>>

RECURSIVE BodyImage(_, _)
BodyImage(body, i) ==
    IF i > Len(body) THEN << >> ELSE GroupImage(body[i]) \o BodyImage(body, i + 1)

SeqsUpTo(S, n) == UNION {[1..k -> S] : k \in 0..n}

\* group streams every group of which parses
CleanBodies == SeqsUpTo({"A", "B"}, MaxGroups)

\* group streams with one group that does not parse: a rejected group
\* anywhere, or a truncated group at the end of the file
FaultBodies ==
    {b \in SeqsUpTo({"A", "B", "X"}, MaxGroups) :
        Cardinality({i \in 1..Len(b) : b[i] = "X"}) = 1}
    \cup {Append(b, "S") : b \in SeqsUpTo({"A", "B"}, MaxGroups - 1)}

\* group streams in which names repeat: one name three times, and two names
\* twice each
DupBodies == {<<"A", "A", "A">>, <<"A", "A", "B", "B">>, <<"A", "B", "B", "A">>}

\* group streams with a terminator: alone, after a group, before a group
TermBodies == {<<"T">>, <<"A", "T">>, <<"T", "A">>}

\* the AES keys files are encrypted with and callers pass: the default keys
\* of twg870 and tc7200, and a key derived from the password "a"
Keys == <<default_keys(5)[1], default_keys(6)[1], keyfun_tc7200(<<97>>)>>

NoKey == 0

KeyOf(k) == IF k = NoKey THEN << >> ELSE Keys[k]

\* a checksum that matches no profile: the right one with a byte flipped
Flip(sum) == [sum EXCEPT ![1] = (sum[1] + 1) % 256]

\* a gwsettings file as a device writes it.  g.body: the groups; g.enc: the
\* key it is encrypted with or NoKey; g.pad: a 16-byte zero trailer follows
\* (inside the encryption when encrypted); g.cks: the profile whose md5 key
\* the checksum uses, NoProfile for a corrupted checksum; g.ckall: the
\* checksum covers the trailer; g.size: the size field is right ("ok"),
\* leaves out the last group ("short") or is 0 ("zero")
GwImage(g) ==
    LET groups == BodyImage(g.body, 1)
        cut    == IF g.size = "short" THEN Len(GroupImage(g.body[Len(g.body)])) ELSE 0
        field  == IF g.size = "zero" THEN 0 ELSE Len(s_magic) + 6 + Len(groups) - cut
        plain  == s_magic \o <<0, 1>> \o U32Bytes(field) \o groups
        padded == IF g.pad THEN plain \o Fill(BlockLen, 0) ELSE plain
        data   == IF g.enc # NoKey THEN crypt(padded, KeyOf(g.enc), FALSE, FALSE) ELSE padded
        summed == IF g.ckall THEN data ELSE Substr(data, 0, Len(data) - BlockLen)
        sum    == IF g.cks = NoProfile THEN Flip(calc_checksum(summed, 6))
                  ELSE calc_checksum(summed, g.cks)
    IN  sum \o data

\* a permnv / dynnv file: 202 bytes of 0xff, size, CRC, the groups and
\* g.tail bytes of 0xff after them; the CRC is taken over the first
\* size + 16 bytes after the header (g.crcok) or is corrupted; g.size: the
\* size field is right ("ok") or is 0 ("zero")
PermDynImage(g) ==
    LET groups == BodyImage(g.body, 1)
        rest   == groups \o Fill(g.tail, 255)
        size   == IF g.size = "zero" THEN 0 ELSE 8 + Len(groups)
        crc    == crc32(Substr(rest, 0, size + 16))
    IN  Fill(PermDynFillLen, 255) \o U32Bytes(size)
            \o (IF g.crcok THEN crc ELSE Flip(crc)) \o rest

\* files that are cut short or damaged in their framing
RawImage(g) ==
    CASE g.raw = "short"   -> Fill(10, 17)
      [] g.raw = "gwhdr"   -> Md5(s_magic) \o s_magic \o <<0, 1, 0>>
      [] g.raw = "pdhdr"   -> Fill(PermDynFillLen, 255) \o <<0, 0, 0>>
      [] g.raw = "pdmagic" -> Fill(PermDynFillLen - 1, 255) \o <<0>> \o U32Bytes(8)
                                  \o crc32(<< >>)

Image(g) ==
    CASE g.family = "gw"      -> GwImage(g)
      [] g.family = "permdyn" -> PermDynImage(g)
      [] g.family = "raw"     -> RawImage(g)

GwCases ==
    {[family |-> "gw", body |-> b, enc |-> e, pad |-> pd, cks |-> c, ckall |-> ca,
      size |-> "ok"] :
        b \in CleanBodies, e \in {NoKey, 1, 2, 3}, pd \in BOOLEAN,
        c \in {NoProfile, 1, 5, 6}, ca \in BOOLEAN}

GwFaultCases ==
    {[family |-> "gw", body |-> b, enc |-> e, pad |-> FALSE, cks |-> 6, ckall |-> TRUE,
      size |-> "ok"] : b \in FaultBodies, e \in {NoKey, 2}}

GwShortCases ==
    {[family |-> "gw", body |-> b, enc |-> NoKey, pad |-> FALSE, cks |-> 6, ckall |-> TRUE,
      size |-> z] : b \in CleanBodies \ {<< >>}, z \in {"short", "zero"}}

PermDynCases ==
    {[family |-> "permdyn", body |-> b, crcok |-> ok, tail |-> t, size |-> "ok"] :
        b \in CleanBodies \cup FaultBodies, ok \in BOOLEAN, t \in {0, 32}}

\* permnv files with a size field of 0 or with particular group streams
PermDynOddCases ==
    {[family |-> "permdyn", body |-> <<"A">>, crcok |-> TRUE, tail |-> 0, size |-> "zero"]}
    \cup {[family |-> "permdyn", body |-> b, crcok |-> TRUE, tail |-> 0, size |-> "ok"] :
             b \in DupBodies \cup TermBodies}

RawCases == {[family |-> "raw", raw |-> r] : r \in {"short", "gwhdr", "pdhdr", "pdmagic"}}

\* the calls of settings::read(is, type, p, key) on those files, with the
\* container's permissive flag
\* the gwsettings files read: a checksum that leaves out the trailer goes
\* with tc7200 only, and a file is checksummed for a profile that could
\* hold its key
GwFiles ==
    {c \in GwCases :
        /\ (~c.ckall => c.pad /\ c.cks = 6)
        /\ (c.enc = 1 => c.cks \in {NoProfile, 5})
        /\ (c.enc = 3 => c.cks = 6)}

Calls ==
    {[gen |-> g, type |-> type_cfg, p |-> NoProfile, key |-> NoKey, permissive |-> TRUE] :
        g \in GwFiles}
    \cup {[gen |-> g, type |-> type_cfg, p |-> 6, key |-> NoKey, permissive |-> TRUE] :
             g \in {c \in GwFiles : Len(c.body) <= 1}}
    \cup {[gen |-> g, type |-> type_cfg, p |-> q, key |-> 3, permissive |-> TRUE] :
             g \in {c \in GwFiles : Len(c.body) <= 1 /\ c.enc \in {2, 3}},
             q \in {NoProfile, 6}}
    \cup {[gen |-> g, type |-> type_cfg, p |-> NoProfile, key |-> NoKey, permissive |-> m] :
             g \in GwFaultCases, m \in BOOLEAN}
    \cup {[gen |-> g, type |-> type_cfg, p |-> NoProfile, key |-> NoKey, permissive |-> TRUE] :
             g \in GwShortCases}
    \cup {[gen |-> g, type |-> t, p |-> NoProfile, key |-> NoKey, permissive |-> m] :
             g \in {c \in PermDynCases : c.body \in FaultBodies => c.tail = 0},
             t \in {type_perm, type_dyn},
             m \in BOOLEAN}
    \cup {[gen |-> g, type |-> type_cfg, p |-> NoProfile, key |-> NoKey, permissive |-> TRUE] :
             g \in {c \in PermDynCases : c.body = << >>}}
    \cup {[gen |-> g, type |-> type_perm, p |-> NoProfile, key |-> NoKey, permissive |-> TRUE] :
             g \in PermDynOddCases}
    \cup {[gen |-> g, type |-> t, p |-> NoProfile, key |-> NoKey, permissive |-> TRUE] :
             g \in RawCases, t \in {type_cfg, type_perm}}

\* ------------------------------------------------------------------------
\* State
\* ------------------------------------------------------------------------

VARIABLES
    gen,               \* how the input file was made (not program state)
    input,             \* the bytes of the input file
    type, p, key,      \* the arguments of settings::read(is, type, p, key)
    pc,                \* where the program is
    err,               \* the exception that ended the operation, or "none"
    is,                \* the stream over the input file
    ret,               \* the codec built by the dispatcher
    m_permissive,      \* settings::m_permissive
    m_profile,         \* settings::m_profile
    m_groups,          \* settings::m_groups
    m_checksum,        \* gwsettings / permdyn::m_checksum, as bytes
    m_is_auto_profile, m_checksum_valid, m_magic_valid, m_size_valid,
    m_encrypted, m_padded,
    m_version, m_size, \* nv_version / nv_u32: [set, num]
    m_key,             \* gwsettings::m_key
    buf,               \* the local buf of gwsettings::read / permdyn::read
    istr,              \* the stream the groups are read from
    remaining, mult, group,   \* the locals of settings::read(is)
    os                 \* the bytes written to the output stream

args  == <<gen, input, type, p, key, m_permissive>>
flags == <<m_is_auto_profile, m_checksum_valid, m_magic_valid, m_size_valid,
           m_encrypted, m_padded>>
hdr   == <<m_checksum, m_version, m_size, m_key>>
loop  == <<istr, remaining, mult, group>>
vars  == <<args, pc, err, is, ret, m_profile, m_groups, flags, hdr, buf, loop, os>>

\* a default-constructed nv_u32 / nv_version
Unset == [set |-> FALSE, num |-> 0]

Init ==
    /\ \E c \in Calls :
          /\ gen = c.gen
          /\ input = Image(c.gen)
          /\ type = c.type
          /\ p = c.p
          /\ key = KeyOf(c.key)
          /\ m_permissive = c.permissive
    /\ pc = "start"
    /\ err = "none"
    /\ is = Stream(input)
    /\ ret = "null"
    /\ m_profile = NoProfile
    /\ m_groups = << >>
    /\ m_checksum = << >>
    /\ m_is_auto_profile = FALSE
    /\ m_checksum_valid = FALSE
    /\ m_magic_valid = FALSE
    /\ m_size_valid = FALSE
    /\ m_encrypted = FALSE
    /\ m_padded = FALSE
    /\ m_version = Unset
    /\ m_size = Unset
    /\ m_key = << >>
    /\ buf = << >>
    /\ istr = Stream(<< >>)
    /\ remaining = 0
    /\ mult = 1
    /\ group = NullGroup
    /\ os = << >>

\* ------------------------------------------------------------------------
\* settings::read(is, type, p, key), the dispatcher
\* ------------------------------------------------------------------------

\* the choice made on the first 16 bytes alone, whatever the type
ChooseCodecAnyType(start, t) ==
    IF start = Fill(StartLen, 255) THEN "permdyn" ELSE "gwsettings"

\* the codec chosen for the first 16 bytes and the type
ChooseCodec(start, t) ==
    IF start = Fill(StartLen, 255) /\ (t = type_dyn \/ t = type_perm)
    THEN "permdyn" ELSE "gwsettings"

\* Reads 16 bytes, builds the codec with the profile p and calls its read
\* (the next step).  The argument key is not handed to the codec.
Dispatch ==
    /\ pc = "start"
    /\ IF Len(is.data) - is.pos < StartLen
       THEN /\ err' = "failed to read file"
            /\ pc' = "failed"
            /\ is' = [is EXCEPT !.pos = Len(is.data), !.eof = TRUE, !.fail = TRUE]
            /\ UNCHANGED <<ret, m_profile, m_checksum>>
       ELSE LET start == Substr(is.data, is.pos, StartLen)
                codec == ChooseCodec(start, type)
            IN  /\ ret' = codec
                /\ m_profile' = p
                /\ m_checksum' = IF codec = "gwsettings" THEN start ELSE << >>
                /\ pc' = IF codec = "gwsettings" THEN "gw_read" ELSE "permdyn_read"
                /\ is' = [is EXCEPT !.pos = is.pos + StartLen]
                /\ err' = "none"
    /\ UNCHANGED <<args, m_groups, flags, m_version, m_size, m_key, buf, loop, os>>

\* read_stream(is): all the bytes left in the stream
read_stream(st) == SubstrFrom(st.data, st.pos)

\* a size_t that went below zero is held as the negative number it is
\* congruent to modulo 2^64; the code only tests such values against zero

\* ------------------------------------------------------------------------
\* permdyn::read
\* ------------------------------------------------------------------------

\* permdyn::data_bytes(): bytes() - 8 in size_t
PermDynDataBytes(size) == size - 8

\* Reads the 0xba-byte magic, size and checksum, takes the first size + 16
\* of the remaining bytes, computes their CRC-32 and compares it with the
\* checksum read (the outcome is logged and nothing is stored), then enters
\* settings::read on those bytes.
PermDynRead ==
    /\ pc = "permdyn_read"
    /\ LET avail == Len(is.data) - is.pos
           magic == Substr(is.data, is.pos, PermDynMagicLen)
           size  == U32Num(Substr(is.data, is.pos + PermDynMagicLen, 4))
           sum   == Substr(is.data, is.pos + PermDynMagicLen + 4, 4)
           after == [is EXCEPT !.pos = is.pos + PermDynMagicLen + 8]
           body  == Substr(read_stream(after), 0, size + 16)
       IN  IF avail < PermDynMagicLen + 8
           THEN /\ err' = "failed to read header"
                /\ pc' = "failed"
                /\ is' = [is EXCEPT !.pos = Len(is.data), !.eof = TRUE, !.fail = TRUE]
                /\ m_size' = IF avail >= PermDynMagicLen + 4
                             THEN [set |-> TRUE, num |-> size] ELSE m_size
                /\ UNCHANGED <<m_checksum, buf, loop>>
           ELSE IF magic # Fill(PermDynMagicLen, 255)
           THEN /\ err' = "found non-0xff byte in magic"
                /\ pc' = "failed"
                /\ is' = after
                /\ m_size' = [set |-> TRUE, num |-> size]
                /\ m_checksum' = sum
                /\ UNCHANGED <<buf, loop>>
           ELSE /\ m_size' = [set |-> TRUE, num |-> size]
                /\ m_checksum' = sum
                /\ buf' = body
                /\ is' = [after EXCEPT !.pos = Len(is.data)]
                /\ istr' = Stream(body)
                /\ remaining' = PermDynDataBytes(size)
                /\ mult' = 1
                /\ group' = NullGroup
                /\ pc' = "groups"
                /\ err' = "none"
    /\ UNCHANGED <<args, ret, m_profile, m_groups, flags, m_version, m_key, os>>

\* ------------------------------------------------------------------------
\* gwsettings::read
\* ------------------------------------------------------------------------

\* gwsettings::data_bytes(): bytes() - (s_magic.size() + 6) in size_t
GwDataBytes(size) == size - (Len(s_magic) + 6)

\* lines 163-165: read the whole stream, validate the checksum and detect
\* the profile
GwReadChecksum ==
    /\ pc = "gw_read"
    /\ LET all == read_stream(is)
           v   == validate_checksum_and_detect_profile(m_checksum, all, m_profile)
       IN  /\ buf' = all
           /\ m_checksum_valid' = v.checksum_valid
           /\ m_is_auto_profile' = v.is_auto_profile
           /\ m_profile' = v.profile
    /\ is' = [is EXCEPT !.pos = Len(is.data)]
    /\ pc' = "gw_magic"
    /\ UNCHANGED <<args, err, ret, m_groups, m_magic_valid, m_size_valid, m_encrypted,
                   m_padded, hdr, loop, os>>

\* lines 164-171: compare the first 74 bytes with the magic; if they differ
\* try to decrypt; if that fails mark the container encrypted and return
GwCheckMagic ==
    /\ pc = "gw_magic"
    /\ LET magic == Substr(buf, 0, Len(s_magic))
           d     == decrypt_and_detect_profile(buf, m_key, m_profile)
       IN  IF magic = s_magic
           THEN /\ m_magic_valid' = TRUE
                /\ pc' = "gw_header"
                /\ UNCHANGED <<buf, m_key, m_encrypted>>
           ELSE IF d.ok
           THEN /\ m_magic_valid' = d.magic_valid
                /\ buf' = d.buf
                /\ m_key' = d.key
                /\ pc' = "gw_header"
                /\ UNCHANGED m_encrypted
           ELSE /\ m_magic_valid' = FALSE
                /\ m_encrypted' = TRUE
                /\ pc' = "read_done"
                /\ UNCHANGED <<buf, m_key>>
    /\ UNCHANGED <<args, err, is, ret, m_profile, m_groups, m_is_auto_profile,
                   m_checksum_valid, m_size_valid, m_padded, m_checksum, m_version,
                   m_size, loop, os>>

\* lines 178-185: the values of m_size_valid and m_padded for a size field
\* and a buffer length
SizeCheck(size, buflen) ==
    IF size = buflen THEN [size_valid |-> TRUE, padded |-> FALSE]
    ELSE IF size + 16 = buflen THEN [size_valid |-> TRUE, padded |-> TRUE]
    ELSE [size_valid |-> FALSE, padded |-> FALSE]

\* lines 173-187: read version and size after the magic, check the size and
\* enter settings::read on the rest
GwReadHeader ==
    /\ pc = "gw_header"
    /\ LET rest  == SubstrFrom(buf, Len(s_magic))
           size  == U32Num(Substr(rest, 2, 4))
           check == SizeCheck(size, Len(buf))
       IN  IF Len(rest) < 6
           THEN /\ err' = "error while reading header"
                /\ pc' = "failed"
                /\ m_version' = IF Len(rest) >= 2
                                THEN [set |-> TRUE, num |-> U16Num(Substr(rest, 0, 2))]
                                ELSE m_version
                /\ istr' = [Stream(rest) EXCEPT !.pos = Len(rest), !.eof = TRUE, !.fail = TRUE]
                /\ UNCHANGED <<m_size, m_size_valid, m_padded, remaining, mult, group>>
           ELSE /\ m_version' = [set |-> TRUE, num |-> U16Num(Substr(rest, 0, 2))]
                /\ m_size' = [set |-> TRUE, num |-> size]
                /\ m_size_valid' = check.size_valid
                /\ m_padded' = check.padded
                /\ istr' = [Stream(rest) EXCEPT !.pos = 6]
                /\ remaining' = GwDataBytes(size)
                /\ mult' = 1
                /\ group' = NullGroup
                /\ pc' = "groups"
                /\ err' = "none"
    /\ UNCHANGED <<args, is, ret, m_profile, m_groups, m_is_auto_profile, m_checksum_valid,
                   m_magic_valid, m_encrypted, m_checksum, m_key, buf, os>>

\* ------------------------------------------------------------------------
\* settings::read(is), the group-stream reader
\* ------------------------------------------------------------------------

\* settings::m_type of the codec built
m_type == IF ret = "permdyn" THEN type ELSE type_cfg

\* line 380 and 381: what the loop does with the stream nv_group::read left:
\* a failure that is not at the end of the input throws in strict mode and
\* stops the loop in permissive mode; everything else accepts the group
ReadOutcome(st, permissive) ==
    IF st.fail /\ ~st.eof
    THEN IF ~permissive THEN "throw" ELSE "stop"
    ELSE "accept"

\* lines 388-393: the name the group is stored under and the new mult
StoredName(groups, g, m) ==
    IF find(groups, GroupName(g))
    THEN [name |-> GroupName(g) \o <<"_", m + 1>>, mult |-> m + 1]
    ELSE [name |-> GroupName(g), mult |-> m]

\* one turn of the loop of settings::read(is)
ReadGroup ==
    /\ pc = "groups"
    /\ remaining # 0 /\ ~istr.eof
    /\ LET r   == NvGroupRead(istr, group, m_type, remaining)
           out == ReadOutcome(r.is, m_permissive)
           n   == StoredName(m_groups, r.group, mult)
       IN  /\ group' = r.group
           /\ CASE out = "throw" ->
                     /\ err' = "failed to read group"
                     /\ pc' = "failed"
                     /\ istr' = r.is
                     /\ UNCHANGED <<m_groups, remaining, mult>>
                [] out = "stop" ->
                     /\ istr' = [r.is EXCEPT !.eof = TRUE, !.fail = FALSE]
                     /\ pc' = "read_done"
                     /\ UNCHANGED <<err, m_groups, remaining, mult>>
                [] out = "accept" /\ r.group = NullGroup ->
                     \* group->name() on a null pointer
                     /\ err' = "null group dereferenced"
                     /\ pc' = "failed"
                     /\ istr' = r.is
                     /\ UNCHANGED <<m_groups, remaining, mult>>
                [] out = "accept" /\ r.group # NullGroup ->
                     /\ m_groups' = Append(m_groups, [name |-> n.name, group |-> r.group])
                     /\ mult' = n.mult
                     /\ remaining' = remaining - GroupBytes(r.group)
                     /\ istr' = r.is
                     /\ UNCHANGED <<err, pc>>
    /\ UNCHANGED <<args, is, ret, m_profile, flags, hdr, buf, os>>

\* the loop condition fails: settings::read(is) and the codec's read return
ReadGroupsEnd ==
    /\ pc = "groups"
    /\ ~(remaining # 0 /\ ~istr.eof)
    /\ pc' = "read_done"
    /\ UNCHANGED <<args, err, is, ret, m_profile, m_groups, flags, hdr, buf, loop, os>>

\* ------------------------------------------------------------------------
\* write
\* ------------------------------------------------------------------------

\* gwsettings::write with the profile tested only where the checksum is
\* written, after the header has gone out
GwWriteLateCheck(profile, groups, version, keyv, padded) ==
    LET body  == SettingsWrite(groups, 1)
        head  == s_magic \o U16Bytes(version.num)
                     \o U32Bytes(Len(s_magic) + 6 + Len(body))
        plain == head \o body
        data  == IF keyv # << >> THEN crypt(plain, keyv, FALSE, padded) ELSE plain
    IN  IF profile = NoProfile
        THEN [err |-> "cannot write file without a profile", out |-> head]
        ELSE [err |-> "none",
              out |-> calc_checksum(data, profile) \o data
                          \o (IF padded THEN Fill(16, 0) ELSE << >>)]

\* gwsettings::write(os) on a container with these members: the exception
\* thrown, if any, and the bytes put on os before it returns or throws
GwWriteResult(profile, groups, version, keyv, padded) ==
    IF profile = NoProfile
    THEN [err |-> "cannot write file without a profile", out |-> << >>]
    ELSE LET body  == SettingsWrite(groups, 1)
             head  == s_magic \o U16Bytes(version.num)
                          \o U32Bytes(Len(s_magic) + 6 + Len(body))
             plain == head \o body
             data  == IF keyv # << >> THEN crypt(plain, keyv, FALSE, padded) ELSE plain
         IN  [err |-> "none",
              out |-> calc_checksum(data, profile) \o data
                          \o (IF padded THEN Fill(16, 0) ELSE << >>)]

\* permdyn::write(os): 0xca bytes of 0xff, 8 + the length of the groups,
\* their CRC-32, the groups
PermDynWriteResult(groups) ==
    LET body == SettingsWrite(groups, 1)
    IN  [err |-> "none",
         out |-> Fill(PermDynFillLen, 255) \o U32Bytes(8 + Len(body)) \o crc32(body) \o body]

\* the container read is written to an output stream
GwSettingsWrite ==
    /\ pc = "read_done"
    /\ ret = "gwsettings"
    /\ LET w == GwWriteResult(m_profile, m_groups, m_version, m_key, m_padded)
       IN  /\ os' = os \o w.out
           /\ err' = w.err
           /\ pc' = IF w.err = "none" THEN "written" ELSE "failed"
    /\ UNCHANGED <<args, is, ret, m_profile, m_groups, flags, hdr, buf, loop>>

PermDynWrite ==
    /\ pc = "read_done"
    /\ ret = "permdyn"
    /\ LET w == PermDynWriteResult(m_groups)
       IN  /\ os' = os \o w.out
           /\ err' = w.err
           /\ pc' = IF w.err = "none" THEN "written" ELSE "failed"
    /\ UNCHANGED <<args, is, ret, m_profile, m_groups, flags, hdr, buf, loop>>

Next ==
    \/ Dispatch
    \/ PermDynRead
    \/ GwReadChecksum
    \/ GwCheckMagic
    \/ GwReadHeader
    \/ ReadGroup
    \/ ReadGroupsEnd
    \/ GwSettingsWrite
    \/ PermDynWrite

Spec == Init /\ [][Next]_vars

\* ------------------------------------------------------------------------
\* Properties
\* ------------------------------------------------------------------------

\* the bytes of the input after the 16 the dispatcher reads
Raw == SubstrFrom(input, StartLen)

\* the codec's read has returned normally
ReadReturned == pc \in {"read_done", "written"}
                    \/ err = "cannot write file without a profile"

\* the input is a container as a device writes it: every group parses, the
\* size field is right, the checksum is the one read recomputes, nothing
\* follows the groups
WellFormed ==
    \/ /\ gen.family = "gw"
       /\ gen.body \in CleanBodies
       /\ gen.size = "ok"
       /\ gen.cks # NoProfile
       /\ gen.ckall
    \/ /\ gen.family = "permdyn"
       /\ gen.body \in CleanBodies
       /\ gen.size = "ok"
       /\ gen.crcok
       /\ gen.tail = 0

\* C1: round trip: when a well-formed container has been read, its profile
\* identified and its body decoded, and it is written back unchanged, the
\* bytes written are the bytes read.
C1_RoundTrip ==
    (/\ pc = "written"
     /\ WellFormed
     /\ (ret = "gwsettings" => m_checksum_valid /\ m_magic_valid))
        => os = input

\* C2: a gwsettings input whose size field is the length of the buffer less
\* 16 is read as padded with a valid size, and writing it gives back the
\* input: same length, same bytes, one 16-byte zero trailer.
C2_PaddedRoundTrip ==
    (/\ ret = "gwsettings"
     /\ gen.family = "gw" /\ gen.cks # NoProfile
     /\ m_size.set /\ m_size.num = Len(buf) - 16)
        => /\ m_padded /\ m_size_valid
           /\ (pc = "written" => os = input)

\* C3: the bytes gwsettings::write emits, read again with the same profile,
\* have a valid checksum: the 16 bytes stored are the MD5 read computes over
\* all bytes after them and the profile's key.
C3_WrittenChecksumValid ==
    (pc = "written" /\ ret = "gwsettings")
        => validate_checksum_and_detect_profile(
               Substr(os, 0, StartLen), SubstrFrom(os, StartLen), m_profile).checksum_valid

\* C4: when the caller passes a key and the buffer does not start with the
\* magic, the caller's key is the one tried: if it decrypts the buffer the
\* read succeeds and the container's key is the caller's key.
C4_CallerKeyUsed ==
    (/\ ret = "gwsettings"
     /\ pc \notin {"start", "gw_read", "gw_magic"}
     /\ key # << >>
     /\ Substr(Raw, 0, 74) # s_magic
     /\ Substr(crypt(Raw, key, TRUE, FALSE), 0, 74) = s_magic)
        => m_magic_valid /\ m_key = key

\* C5: permdyn::read sets checksum_valid to whether the CRC-32 of the first
\* size + 16 bytes after the header equals the CRC stored, and goes on to
\* the groups in both cases.
C5_PermDynChecksumValid ==
    (ret = "permdyn" /\ pc \in {"groups", "read_done", "written"})
        => /\ buf = Substr(SubstrFrom(input, PermDynFillLen + 8), 0, m_size.num + 16)
           /\ m_checksum_valid = (crc32(buf) = m_checksum)

\* the group as nv_group::read left it did not parse: its payload is cut
\* short or its schema rejects it
BadGroup(g) ==
    g # NullGroup /\ (Len(g.payload) < g.size - GroupHeaderLen
                        \/ ~SchemaAccepts(g.magic, g.payload))

\* C6: when a group fails to parse, also because the input ends inside it,
\* strict mode fails the read with the group error, and permissive mode
\* raises nothing and keeps exactly the groups accepted before it: the bad
\* group is never in the list.
C6_BadGroupPolicy ==
    /\ \A i \in 1..Len(m_groups) : ~BadGroup(m_groups[i].group)
    /\ BadGroup(group) =>
          IF m_permissive THEN err = "none" /\ pc # "groups"
          ELSE err = "failed to read group" /\ pc = "failed"

\* the profiles whose md5 key gives the checksum of the input
Matches == {i \in profile_list : Md5(Raw \o md5_key(i)) = Substr(input, 0, StartLen)}

Min(S) == CHOOSE x \in S : \A y \in S : x <= y

\* C7: without a caller's profile the first profile of the registry whose
\* MD5 matches is selected, with auto_profile and checksum_valid set; if
\* none matches the profile stays unset and both flags false; with a
\* caller's profile only that one is tested and auto_profile stays false.
\* A checksum that does not match stops nothing: the groups of an otherwise
\* sound cleartext file are all read.
C7_ProfileDetection ==
    (ret = "gwsettings" /\ pc \notin {"start", "gw_read"}) =>
        /\ IF p # NoProfile
           THEN /\ m_profile = p
                /\ ~m_is_auto_profile
                /\ m_checksum_valid = (p \in Matches)
           ELSE IF Matches # {}
           THEN /\ m_profile = Min(Matches)
                /\ m_is_auto_profile
                /\ m_checksum_valid
           ELSE /\ m_profile = NoProfile
                /\ ~m_is_auto_profile
                /\ ~m_checksum_valid
        /\ (/\ gen.family = "gw" /\ gen.body \in CleanBodies /\ gen.size = "ok"
            /\ gen.enc = NoKey /\ ~m_checksum_valid)
              => /\ err \in {"none", "cannot write file without a profile"}
                 /\ (pc = "read_done" => Len(m_groups) = Len(gen.body))

\* a file without a matching checksum and without a caller's profile has
\* been read to the end, groups included
C7_Witness ==
    /\ ret = "gwsettings" /\ pc = "read_done"
    /\ p = NoProfile /\ Matches = {}
    /\ ~m_checksum_valid /\ ~m_is_auto_profile /\ m_profile = NoProfile
    /\ Len(m_groups) = 2

\* C8: when the key is found by trying the default keys of all profiles
\* (magic not in cleartext, no caller's key, no profile known), the
\* container's key is the key that decrypted and its profile is the profile
\* that supplied the key.
C8_KeyDetectionSetsProfile ==
    (/\ ret = "gwsettings"
     /\ pc \notin {"start", "gw_read", "gw_magic"}
     /\ key = << >>
     /\ ~m_checksum_valid /\ p = NoProfile
     /\ Substr(Raw, 0, 74) # s_magic
     /\ m_magic_valid)
        => /\ m_profile # NoProfile
           /\ \E i \in 1..Len(default_keys(m_profile)) : default_keys(m_profile)[i] = m_key

\* the keys gwsettings::read tries on a container whose key is unset: the
\* default keys of its profile, or of every profile when it has none
CandidateKeys ==
    IF m_profile # NoProfile
    THEN {default_keys(m_profile)[i] : i \in 1..Len(default_keys(m_profile))}
    ELSE UNION {{default_keys(q)[i] : i \in 1..Len(default_keys(q))} : q \in profile_list}

Undecryptable ==
    /\ Substr(Raw, 0, 74) # s_magic
    /\ \A k \in CandidateKeys : Substr(crypt(Raw, k, TRUE, FALSE), 0, 74) # s_magic

\* C9: if the buffer does not start with the magic and no candidate key
\* decrypts it, gwsettings::read returns normally with encrypted set,
\* magic_valid clear, no groups, buf as read and version and size never
\* read; and whenever gwsettings::read has returned normally exactly one of
\* magic_valid and encrypted is set.
C9_DecryptFailureTerminal ==
    (ret = "gwsettings" /\ pc \notin {"start", "gw_read", "gw_magic"}) =>
        /\ Undecryptable =>
              /\ ReadReturned
              /\ m_encrypted /\ ~m_magic_valid
              /\ m_groups = << >>
              /\ buf = Raw
              /\ ~m_version.set /\ ~m_size.set
              /\ err \in {"none", "cannot write file without a profile"}
        /\ ReadReturned => (m_magic_valid # m_encrypted)
        /\ m_encrypted => Undecryptable

\* an encrypted file no candidate key opens has been read
C9_Witness ==
    /\ ret = "gwsettings" /\ pc = "read_done"
    /\ Undecryptable /\ m_encrypted /\ gen.family = "gw" /\ gen.enc = 3

\* C10: gwsettings::write on a container without a profile fails with the
\* missing-profile error and puts nothing on the output; that error is
\* raised only there: never by a read, and never when there is a profile.
C10_MissingProfile ==
    [][ /\ (pc = "read_done" /\ ret = "gwsettings" /\ m_profile = NoProfile)
            => /\ err' = "cannot write file without a profile"
               /\ pc' = "failed"
               /\ os' = os
        /\ (err' = "cannot write file without a profile"
                /\ err # "cannot write file without a profile")
            => /\ pc = "read_done" /\ ret = "gwsettings"
               /\ m_profile = NoProfile
               /\ os' = << >> ]_vars

\* a write without a profile has failed
C10_Witness ==
    /\ err = "cannot write file without a profile"
    /\ pc = "failed" /\ m_profile = NoProfile /\ os = << >>
    /\ Len(m_groups) > 0

\* the first 16 bytes of the input are all 0xff
StartsWithFF ==
    Len(input) >= 16 /\ \A i \in 1..16 : input[i] = 255

\* C11: the dispatcher reads exactly 16 bytes; with fewer than 16 available
\* it fails with the short-read error and builds no codec; it builds a
\* permdyn codec iff the 16 bytes are all 0xff and the type is perm or dyn,
\* and a gwsettings codec holding the 16 bytes as its checksum in every
\* other case; the codec's read then works on the rest of the input.
C11_Dispatcher ==
    /\ pc = "start" => ret = "null" /\ is.pos = 0
    /\ pc # "start" =>
          IF Len(input) < 16
          THEN pc = "failed" /\ err = "failed to read file" /\ ret = "null"
          ELSE /\ err # "failed to read file"
               /\ ret \in {"permdyn", "gwsettings"}
               /\ ret = "permdyn" <=> (StartsWithFF /\ type \in {type_perm, type_dyn})
               /\ ret = "gwsettings" =>
                     /\ m_checksum = [i \in 1..16 |-> input[i]]
                     /\ pc = "gw_magic" => buf = [i \in 1..(Len(input) - 16) |-> input[i + 16]]
               /\ pc \in {"gw_read", "permdyn_read"} => is.pos = 16
               /\ (ret = "permdyn" /\ pc = "groups") =>
                     /\ m_size.set
                     /\ m_size.num = U32Num([i \in 1..4 |-> input[16 + PermDynMagicLen + i]])

\* a file of 0xff bytes read without a perm or dyn type has gone to the
\* gwsettings codec, which has read the rest of the input
C11_Witness ==
    /\ StartsWithFF /\ type = type_cfg
    /\ ret = "gwsettings" /\ pc = "gw_magic"
    /\ Len(buf) = Len(input) - 16

\* how many entries before the i-th hold a group of the same magic
Earlier(groups, i) ==
    Cardinality({j \in 1..(i - 1) : groups[j].group.magic = groups[i].group.magic})

\* C12: the names in the group list are pairwise distinct and the entries
\* are in the order of the input; a group whose name is already in the list
\* is stored under the name with "_<n>" appended, and the first duplicate
\* of a name gets "_2".  Stated for the files whose size field is right.
C12_UniqueNames ==
    (Len(m_groups) > 0 /\ gen.size = "ok") =>
        /\ \A i, j \in 1..Len(m_groups) : i # j => m_groups[i].name # m_groups[j].name
        /\ \A i \in 1..Len(m_groups) :
              /\ i <= Len(gen.body)
              /\ m_groups[i].group.magic = Substr(GroupImage(gen.body[i]), 2, 4)
              /\ Earlier(m_groups, i) = 0 => m_groups[i].name = GroupName(m_groups[i].group)
              /\ Earlier(m_groups, i) = 1 =>
                    m_groups[i].name = GroupName(m_groups[i].group) \o <<"_", 2>>
              /\ Earlier(m_groups, i) > 1 =>
                    \E n \in 2..(Len(m_groups) + 1) :
                        m_groups[i].name = GroupName(m_groups[i].group) \o <<"_", n>>

\* the sum of bytes() over the groups of a list
RECURSIVE SumBytes(_, _)
SumBytes(groups, i) ==
    IF i > Len(groups) THEN 0 ELSE GroupBytes(groups[i].group) + SumBytes(groups, i + 1)

\* the size field of a gwsettings file as written, in cleartext
WrittenSize ==
    LET data  == SubstrFrom(os, StartLen)
        plain == IF m_key # << >> THEN crypt(data, m_key, TRUE, FALSE) ELSE data
    IN  U32Num(Substr(plain, Len(s_magic) + 2, 4))

\* C13: after every gwsettings read that returned with the body read, the
\* container's size is 74 + 2 + 4 + the sum of bytes() over its groups (the
\* trailer of a padded container left out); and gwsettings::write always
\* emits a size field of 80 + the length of the groups as serialized,
\* whatever size was read.
C13_SizeInvariant ==
    /\ (ret = "gwsettings" /\ ReadReturned /\ m_size.set)
          => m_size.num = 74 + 2 + 4 + SumBytes(m_groups, 1)
    /\ (ret = "gwsettings" /\ pc = "written")
          => WrittenSize = 80 + Len(SettingsWrite(m_groups, 1))

\* the place of the first terminator in the group stream of the input, or
\* one past the last group if there is none
FirstTerminator ==
    Min({i \in 1..Len(gen.body) : gen.body[i] = "T"} \cup {Len(gen.body) + 1})

\* C14: a group with the magic ffffffff ends the group stream and is not
\* added to the list: no entry of the list has that magic, and no group
\* that follows the terminator in the input is in the list.
C14_Terminator ==
    Len(m_groups) > 0 =>
        /\ \A i \in 1..Len(m_groups) : m_groups[i].group.magic # TerminatorMagic
        /\ Len(m_groups) < FirstTerminator

\* crypt(x, k, d, FALSE) keeps the length of x, leaves the len mod 16 bytes
\* after the last whole block as they are, and works block by block: the
\* first and the last whole block of the output are what crypt gives for
\* that block alone
BlockCarry(x, k, d) ==
    LET y     == crypt(x, k, d, FALSE)
        n     == Len(x)
        whole == (n \div 16) * 16
    IN  /\ Len(y) = n
        /\ \A i \in (whole + 1)..n : y[i] = x[i]
        /\ whole >= 16 =>
              /\ Substr(y, 0, 16) = crypt(Substr(x, 0, 16), k, d, FALSE)
              /\ Substr(y, whole - 16, 16) = crypt(Substr(x, whole - 16, 16), k, d, FALSE)
              /\ Substr(y, 0, 16) # Substr(x, 0, 16)

\* C15: crypt works on whole 16-byte blocks and copies the trailing
\* len mod 16 bytes to the same offsets of the output, encrypting and
\* decrypting; the output is as long as the input, except that encrypting
\* with pad appends 16 zero bytes to the plaintext first (16 bytes more);
\* so decrypting what was encrypted without pad under the same key gives
\* the plaintext back.  Checked on the body of every gwsettings file read,
\* as read and as decrypted by gwsettings::read.
C15_BlockCarry ==
    (ret = "gwsettings" /\ pc = "gw_header") =>
        /\ \A k \in {Keys[1], Keys[3]} :
              /\ BlockCarry(Raw, k, FALSE)
              /\ BlockCarry(Raw, k, TRUE)
              /\ crypt(crypt(Raw, k, FALSE, FALSE), k, TRUE, FALSE) = Raw
              /\ crypt(Raw, k, TRUE, TRUE) = crypt(Raw, k, TRUE, FALSE)
              /\ Len(crypt(Raw, k, FALSE, TRUE)) = Len(Raw) + 16
              /\ crypt(Raw, k, FALSE, TRUE) = crypt(Raw \o Fill(16, 0), k, FALSE, FALSE)
        /\ m_key # << >> =>
              /\ Len(buf) = Len(Raw)
              /\ SubstrFrom(buf, (Len(Raw) \div 16) * 16) = SubstrFrom(Raw, (Len(Raw) \div 16) * 16)
              /\ crypt(buf, m_key, FALSE, FALSE) = Raw

\* gwsettings::read has decrypted a file whose length is not a multiple of
\* 16: the whole blocks changed, the bytes after them did not
C15_Witness ==
    /\ ret = "gwsettings" /\ pc = "gw_header"
    /\ m_key # << >>
    /\ Len(Raw) % 16 # 0
    /\ buf # Raw
    /\ SubstrFrom(buf, (Len(Raw) \div 16) * 16) = SubstrFrom(Raw, (Len(Raw) \div 16) * 16)

\* data_bytes() of the container read and the length of its header
DeclaredBody ==
    IF ret = "permdyn" THEN PermDynDataBytes(m_size.num) ELSE GwDataBytes(m_size.num)

\* C16: the counter remaining of the group-stream reader never wraps
\* around: data_bytes() comes from a size that is at least the length of
\* the header (80 for gwsettings, 8 for permdyn) or no group is read, and
\* the bytes() of the groups accepted never add up to more than
\* data_bytes(); so the loop ends when remaining is 0 or the input ends.
C16_RemainingBound ==
    (pc \in {"groups", "read_done", "written"} /\ m_size.set) =>
        /\ remaining >= 0
        /\ DeclaredBody < 0 => m_groups = << >>
        /\ DeclaredBody >= 0 => SumBytes(m_groups, 1) <= DeclaredBody
        /\ remaining = DeclaredBody - SumBytes(m_groups, 1)

=============================================================================
